---- MODULE Spec2Model ----
(***************************************************************************)
(* venvkiller: the directory scanner (finder.py) and the deletion engine   *)
(* (cleaner.py).                                                           *)
(*                                                                         *)
(* A path is the sequence of its components below the filesystem root;     *)
(* <<>> is the filesystem root itself.                                     *)
(***************************************************************************)
EXTENDS Integers, Sequences, FiniteSets, TLC

VARIABLES
    \* ---- scanner (finder.find_venvs) ----
    dirs,           \* the directories of the filesystem snapshot
    files,          \* the non-directory entries of the snapshot
    platform,       \* sys.platform
    start_path,     \* find_venvs: the resolved start directory
    max_depth,      \* find_venvs: max_depth
    exclude_dirs,   \* find_venvs: the caller's exclude_dirs
    seq_run,        \* the call find_venvs(parallel=False): NotRun or its outcome
    par_run,        \* the call find_venvs(parallel=True): NotRun or its outcome
    unreadable,     \* the directories whose listing is denied (no read permission)
    unsearchable,   \* the directories whose entries cannot be reached (no search
                    \* permission)
    \* ---- recognition (finder.is_virtual_env) ----
    env_path,       \* is_virtual_env: path
    env_run,        \* the call is_virtual_env(env_path): NotRun or its outcome
    \* ---- manifest detection (finder.has_requirement_files) ----
    parent_dir,     \* has_requirement_files: parent_dir
    req_run,        \* the call has_requirement_files(parent_dir): NotRun or its outcome
    \* ---- deletion (cleaner.delete_multiple_venvs, cleaner.safe_delete_venv) ----
    fs,             \* the filesystem: each existing path's entry
    venv_paths,     \* delete_multiple_venvs: the list of paths
    sink,           \* delete_multiple_venvs: the progress_callback given
    pc,             \* where the call of delete_multiple_venvs stands; "done":
                    \* it returned, "raised": an exception left it
    i,              \* delete_multiple_venvs: the loop's position in venv_paths
    venvs_deleted,  \* delete_multiple_venvs: venvs_deleted
    bytes_freed,    \* delete_multiple_venvs: bytes_freed
    failures,       \* delete_multiple_venvs: failures
    venv_size,      \* delete_multiple_venvs: venv_size of the current path
    total_size,     \* safe_delete_venv: total_size
    bytes_removed,  \* safe_delete_venv: bytes_removed
    errors,         \* safe_delete_venv: errors
    walk,           \* safe_delete_venv: what os.walk(topdown=False) has yet to yield
    result,         \* safe_delete_venv: the (success, error) it returned
    calls,          \* the (bytes_removed, total_size) pairs the current call of
                    \* safe_delete_venv passed to its progress_callback
    unlinked,       \* the files the current call's walk has unlinked
    attempted,      \* the entries the current call's walk has tried to remove
    counted,        \* the paths counted in venvs_deleted, in order
    sink_log,       \* the calls the sink received
    freed           \* the bytes of the files removed since the batch began

scan_vars == <<dirs, files, platform, start_path, max_depth, exclude_dirs,
               seq_run, par_run, unreadable, unsearchable>>

env_vars == <<env_path, env_run>>

batch_vars == <<venv_paths, sink, i, venvs_deleted, bytes_freed, failures,
                venv_size, counted, sink_log>>

call_vars == <<total_size, bytes_removed, errors, walk, result, calls,
               unlinked, attempted>>

delete_vars == <<fs, pc, freed, batch_vars, call_vars>>

req_vars == <<parent_dir, req_run>>

vars == <<scan_vars, env_vars, req_vars, delete_vars>>

(***************************************************************************)
(* Bounds of the model.                                                    *)
(***************************************************************************)
\* directories of a snapshot besides the filesystem root
MaxDirs == 2
\* the largest max_depth a call is given
MaxDepth == 2
\* the longest list of paths a batch is given
MaxBatch == 2
\* the largest size of a file
MaxSize == 1
\* the depth of the deepest directory has_requirement_files is asked about
MaxReqDepth == 4
\* the files lying in that directory and its ancestors
MaxManifests == 2
\* the files lying in the subtree is_virtual_env is asked about
MaxMarkers == 2

\* directory names: a platform default exclusion, a hidden name off the
\* allow-list, a hidden name on it, a plain name
DirNames == {"dev", ".git", ".venv", "p"}
\* what a caller may pass as exclude_dirs
CallerExcludes == {{}, {"p"}}
Platforms == {"linux", "win32"}

NotRun == [state |-> "not_run"]

(***************************************************************************)
(* pathlib                                                                 *)
(***************************************************************************)
\* Path.name: the last component, "" for the root
Name(path) == IF path = <<>> THEN "" ELSE path[Len(path)]

\* Path.parent: the root is its own parent
Parent(path) == IF path = <<>> THEN path ELSE SubSeq(path, 1, Len(path) - 1)

\* path / rel
Join(path, rel) == path \o rel

\* a is b or an ancestor of b
IsPrefix(a, b) == Len(a) <= Len(b) /\ SubSeq(b, 1, Len(a)) = a

\* Path.exists
Exists(path) == path \in dirs \/ path \in files

\* Path.is_dir
IsDir(path) == path \in dirs

\* str.startswith('.')
StartsWithDot(name) == name \in {".git", ".venv", ".env", ".virtualenv", ".VENV"}

\* str.lower
Lower(name) == IF name = ".VENV" THEN ".venv" ELSE name

RECURSIVE SeqOf(_)
\* a set as a list, in the order the operating system lists it
SeqOf(S) ==
    IF S = {} THEN <<>>
    ELSE LET x == CHOOSE y \in S : TRUE IN <<x>> \o SeqOf(S \ {x})

\* Path.iterdir: the entries directly beneath a directory
IterDir(path) ==
    SeqOf({e \in dirs \cup files : e # <<>> /\ Parent(e) = path})

Range(s) == {s[k] : k \in 1..Len(s)}

RECURSIVE SubsetsUpTo(_, _)
\* the subsets of S of at most n elements
SubsetsUpTo(S, n) ==
    IF n = 0 THEN {{}}
    ELSE LET smaller == SubsetsUpTo(S, n - 1)
         IN  smaller \cup UNION {{T \cup {x} : x \in S} : T \in smaller}

\* stat of a path fails with EACCES: a directory on the way to it cannot be
\* searched.  Path.is_dir and Path.exists pass this error on (they swallow
\* only ENOENT, ENOTDIR, EBADF and ELOOP)
StatRaises(path) ==
    \E k \in 0..(Len(path) - 1) : SubSeq(path, 1, k) \in unsearchable

\* Path.iterdir fails with EACCES: the directory cannot be read or reached
ListRaises(path) == path \in unreadable \/ StatRaises(path)

(***************************************************************************)
(* finder.py                                                               *)
(***************************************************************************)
VENV_IDENTIFIERS ==
    { <<"pyvenv.cfg">>, <<"bin", "activate">>, <<"Scripts", "activate">>,
      <<"bin", "python">>, <<"Scripts", "python.exe">> }

\* only the configuration file counts
is_virtual_env_cfg_only(path) ==
    IF ~IsDir(path) THEN FALSE
    ELSE Exists(Join(path, <<"pyvenv.cfg">>))

is_virtual_env(path) ==
    IF ~IsDir(path) THEN FALSE
    ELSE \E identifier \in VENV_IDENTIFIERS : Exists(Join(path, identifier))

\* is_virtual_env raises PermissionError: in path.is_dir(), or in the
\* exists() of a marker.  (In every snapshot of the model the markers of one
\* directory raise all or none, so the order of the set does not matter.)
IsVirtualEnvRaises(path) ==
    \/ StatRaises(path)
    \/ IsDir(path) /\ \E identifier \in VENV_IDENTIFIERS :
                         StatRaises(Join(path, identifier))

\* the hidden names find_venvs_in_dir descends into
HiddenAllowed == {".venv", ".env", ".virtualenv"}

\* every directory, hidden or not
EligibleAnyDir(item) == IsDir(item)

\* the test find_venvs_in_dir applies to an entry before descending into it
Eligible(item) ==
    /\ IsDir(item)
    /\ \/ StartsWithDot(Name(item)) /\ Lower(Name(item)) \in HiddenAllowed
       \/ ~StartsWithDot(Name(item))

\* what a traversal has done: the paths it yielded, the directories it
\* tested with is_virtual_env, the directories it listed with iterdir, and
\* whether a PermissionError left it
NoTrace == [venvs |-> <<>>, tested |-> {}, listed |-> {}, raised |-> FALSE]

Trace(venvs, tested, listed) ==
    [venvs |-> venvs, tested |-> tested, listed |-> listed, raised |-> FALSE]

Raise(tested) ==
    [venvs |-> <<>>, tested |-> tested, listed |-> {}, raised |-> TRUE]

\* a, and b after it unless an exception left a
Then(a, b) ==
    IF a.raised THEN a
    ELSE [venvs |-> a.venvs \o b.venvs,
          tested |-> a.tested \cup b.tested,
          listed |-> a.listed \cup b.listed,
          raised |-> b.raised]

\* except (PermissionError, OSError): pass
Caught(t) == [t EXCEPT !.raised = FALSE]

RECURSIVE find_venvs_in_dir(_, _, _), ScanItems(_, _, _)
find_venvs_in_dir(directory, depth, excl) ==
    IF Name(directory) \in excl THEN NoTrace
    ELSE IF IsVirtualEnvRaises(directory) THEN Raise({directory})
    ELSE IF is_virtual_env(directory) THEN Trace(<<directory>>, {directory}, {})
    ELSE IF depth <= 0 THEN Trace(<<>>, {directory}, {})
    ELSE IF ListRaises(directory) THEN Caught(Raise({directory}))
    ELSE Then(Trace(<<>>, {directory}, {directory}),
              Caught(ScanItems(IterDir(directory), depth, excl)))

\* the loop of find_venvs_in_dir over the entries of a directory; an
\* exception in item.is_dir() or out of the recursive call ends the loop
ScanItems(items, depth, excl) ==
    IF items = <<>> THEN NoTrace
    ELSE Then(IF StatRaises(Head(items)) THEN Raise({})
              ELSE IF Eligible(Head(items))
              THEN find_venvs_in_dir(Head(items), depth - 1, excl)
              ELSE NoTrace,
              ScanItems(Tail(items), depth, excl))

\* find_venvs: the platform's system directories, merged with the caller's
DefaultExcludes(plat) ==
    IF plat = "win32" THEN {"Windows", "Program Files", "Program Files (x86)"}
    ELSE {"proc", "sys", "dev", "run"}

exclude_set == exclude_dirs \cup DefaultExcludes(platform)

RECURSIVE MapTopDirs(_, _, _)
\* executor.map over top_dirs: every directory is scanned by a worker; the
\* results are extended in the order of top_dirs, up to the first worker
\* whose exception the iteration raises again
MapTopDirs(top_dirs, depth, excl) ==
    IF top_dirs = <<>> THEN NoTrace
    ELSE LET first == find_venvs_in_dir(Head(top_dirs), depth - 1, excl)
             rest == MapTopDirs(Tail(top_dirs), depth, excl)
         IN  [venvs |-> IF first.raised THEN <<>> ELSE first.venvs \o rest.venvs,
              tested |-> first.tested \cup rest.tested,
              listed |-> first.listed \cup rest.listed,
              raised |-> first.raised \/ rest.raised]

\* what a call of find_venvs ends in
Outcome(t) ==
    [state |-> IF t.raised THEN "raised" ELSE "returned",
     venvs |-> IF t.raised THEN <<>> ELSE t.venvs,
     tested |-> t.tested,
     listed |-> t.listed]

\* find_venvs(parallel=False)
FindVenvsSequentialResult ==
    Outcome(find_venvs_in_dir(start_path, max_depth, exclude_set))

TopDirs ==
    SelectSeq(IterDir(start_path),
              LAMBDA d : IsDir(d) /\ Name(d) \notin exclude_set)

\* find_venvs(parallel=True)
FindVenvsParallelResult ==
    Outcome(Caught(
        IF ListRaises(start_path) THEN Raise({})
        ELSE IF \E d \in Range(IterDir(start_path)) : StatRaises(d)
        THEN Trace(<<>>, {}, {start_path})
        ELSE Then(Trace(<<>>, {}, {start_path}),
                  MapTopDirs(TopDirs, max_depth, exclude_set))))

(***************************************************************************)
(* The filesystem snapshots a scan is run on.                              *)
(***************************************************************************)
RECURSIVE Trees(_)
\* the directory trees of at most k directories besides the root
Trees(k) ==
    IF k = 0 THEN {{<<>>}}
    ELSE LET prev == Trees(k - 1)
         IN  prev \cup UNION {{T \cup {Append(d, n)} : d \in T, n \in DirNames} : T \in prev}

\* a snapshot and the arguments of a call
ScanInputs ==
    /\ dirs \in Trees(MaxDirs)
    /\ \E marked \in SUBSET dirs : files = {Join(d, <<"pyvenv.cfg">>) : d \in marked}
    /\ platform \in Platforms
    /\ start_path \in dirs
    /\ max_depth \in 0..MaxDepth
    /\ exclude_dirs \in CallerExcludes
    /\ seq_run = NotRun
    /\ par_run = NotRun

\* every directory can be read and searched
ScanInit ==
    /\ ScanInputs
    /\ unreadable = {}
    /\ unsearchable = {}

\* the permissions a directory may lack: read, search, both
AccessModes == {{"r"}, {"x"}, {"r", "x"}}

\* one directory at or below the start directory lacks permissions
AccessInit ==
    /\ ScanInputs
    /\ \E X \in {d \in dirs : IsPrefix(start_path, d)}, lacking \in AccessModes :
          /\ unreadable = (IF "r" \in lacking THEN {X} ELSE {})
          /\ unsearchable = (IF "x" \in lacking THEN {X} ELSE {})

FindVenvsSequential ==
    /\ seq_run = NotRun
    /\ seq_run' = FindVenvsSequentialResult
    /\ UNCHANGED <<dirs, files, platform, start_path, max_depth, exclude_dirs, par_run,
                   unreadable, unsearchable>>
    /\ UNCHANGED <<env_vars, req_vars, delete_vars>>

FindVenvsParallel ==
    /\ par_run = NotRun
    /\ par_run' = FindVenvsParallelResult
    /\ UNCHANGED <<dirs, files, platform, start_path, max_depth, exclude_dirs, seq_run,
                   unreadable, unsearchable>>
    /\ UNCHANGED <<env_vars, req_vars, delete_vars>>

ScanNext == FindVenvsSequential \/ FindVenvsParallel

(***************************************************************************)
(* finder.py: is_virtual_env called on its own, on a directory p with      *)
(* marker files, other files, and markers deeper in its subtree.           *)
(***************************************************************************)
IsVirtualEnv ==
    /\ env_run = NotRun
    /\ env_run' = IF IsVirtualEnvRaises(env_path) THEN [state |-> "raised"]
                  ELSE [state |-> "returned", value |-> is_virtual_env(env_path)]
    /\ UNCHANGED <<scan_vars, env_path, req_vars, delete_vars>>

EnvNext == IsVirtualEnv

\* the files that may lie in p's subtree
MarkerCandidates ==
    {Join(<<"p">>, identifier) : identifier \in VENV_IDENTIFIERS}
    \cup { <<"p", "README.md">>, <<"p", "bin", "pip">>,
           <<"p", "lib", "pyvenv.cfg">>, <<"p", "lib", "bin", "activate">> }

\* the proper ancestors of a path
Ancestors(path) == {SubSeq(path, 1, k) : k \in 0..(Len(path) - 1)}

\* the paths is_virtual_env is asked about: p, directories beneath it, a file
EnvPaths == { <<"p">>, <<"p", "bin">>, <<"p", "lib">>, <<"p", "pyvenv.cfg">> }

EnvInit ==
    /\ files \in SubsetsUpTo(MarkerCandidates, MaxMarkers)
    /\ dirs = {<<>>, <<"p">>} \cup UNION {Ancestors(f) : f \in files}
    /\ env_path \in EnvPaths
    /\ env_run = NotRun
    /\ platform = "linux"
    /\ start_path = <<>>
    /\ max_depth = 0
    /\ exclude_dirs = {}
    /\ seq_run = NotRun
    /\ par_run = NotRun
    /\ unreadable = {}
    /\ unsearchable = {}

(***************************************************************************)
(* finder.py: has_requirement_files                                        *)
(***************************************************************************)
req_patterns ==
    <<"requirements.txt", "pyproject.toml", "Pipfile", "setup.py",
      "poetry.lock", "Pipfile.lock">>

\* for _ in range(3)
LevelsChecked == 3

\* lines 127-129: the patterns that exist in one directory, in list order
MatchesIn(dir_to_check) ==
    LET hit == SelectSeq(req_patterns,
                         LAMBDA pattern : Exists(Join(dir_to_check, <<pattern>>)))
    IN  [k \in 1..Len(hit) |-> Join(dir_to_check, <<hit[k]>>)]

RECURSIVE CheckLevels(_, _)
\* lines 126-135: the loop, n passes left, stopped at the root
CheckLevels(dir_to_check, n) ==
    IF n = 0 THEN <<>>
    ELSE MatchesIn(dir_to_check)
         \o (IF Parent(dir_to_check) = dir_to_check THEN <<>>
             ELSE CheckLevels(Parent(dir_to_check), n - 1))

\* one level more than range(3)
has_requirement_files_4(dir) ==
    LET req_files == CheckLevels(dir, LevelsChecked + 1)
    IN  [has |-> req_files # <<>>, req_files |-> req_files]

has_requirement_files(dir) ==
    LET req_files == CheckLevels(dir, LevelsChecked)
    IN  [has |-> req_files # <<>>, req_files |-> req_files]

HasRequirementFiles ==
    /\ req_run = NotRun
    /\ req_run' = [state |-> "returned"] @@ has_requirement_files(parent_dir)
    /\ UNCHANGED <<scan_vars, env_vars, parent_dir, delete_vars>>

ReqNext == HasRequirementFiles

\* the directory asked about lies on a chain of directories below the root;
\* a few files, manifests and others, lie in the directories of the chain
ReqChain == [k \in 1..MaxReqDepth |-> "p"]

ReqDirs == {SubSeq(ReqChain, 1, k) : k \in 0..MaxReqDepth}

ReqFileNames == Range(req_patterns) \cup {"README.md"}

ReqInit ==
    /\ dirs = ReqDirs
    /\ files \in SubsetsUpTo({Join(d, <<n>>) : d \in ReqDirs, n \in ReqFileNames},
                             MaxManifests)
    /\ parent_dir \in ReqDirs
    /\ req_run = NotRun
    /\ platform = "linux"
    /\ start_path = <<>>
    /\ max_depth = 0
    /\ exclude_dirs = {}
    /\ seq_run = NotRun
    /\ par_run = NotRun
    /\ unreadable = {}
    /\ unsearchable = {}

\* has_requirement_files is not called
ReqIdle ==
    /\ parent_dir = <<>>
    /\ req_run = NotRun

(***************************************************************************)
(* cleaner.py: the filesystem it deletes from.  An entry is a directory, a  *)
(* file or a symbolic link; removing a locked entry fails with an OSError  *)
(* wherever it is tried.                                                   *)
(***************************************************************************)
File(size, locked) == [kind |-> "file", size |-> size, locked |-> locked]

Dir(locked) == [kind |-> "dir", size |-> 0, locked |-> locked]

\* a symbolic link: to a directory outside the tree ("dir"), or to nothing
\* ("dangling")
Link(target) == [kind |-> "link", size |-> 0, locked |-> FALSE, target |-> target]

IsLinkTo(f, path, target) ==
    path \in DOMAIN f /\ f[path].kind = "link" /\ f[path].target = target

OnDisk(f, path) == path \in DOMAIN f

OnDiskDir(f, path) == OnDisk(f, path) /\ f[path].kind = "dir"

Children(f, path) == {e \in DOMAIN f : Len(e) = Len(path) + 1 /\ IsPrefix(path, e)}

Remove(f, gone) == [e \in DOMAIN f \ gone |-> f[e]]

\* os.scandir as os.walk splits it: the subdirectories, the other entries
\* (a link to a directory is among the subdirectories, a dangling one among
\* the other entries)
SubDirs(f, path) ==
    SeqOf({e \in Children(f, path) : f[e].kind = "dir" \/ IsLinkTo(f, e, "dir")})

NonDirs(f, path) ==
    SeqOf({e \in Children(f, path) : f[e].kind # "dir" /\ ~IsLinkTo(f, e, "dir")})

RECURSIVE SumSizes(_, _)
SumSizes(f, S) ==
    IF S = {} THEN 0
    ELSE LET e == CHOOSE x \in S : TRUE IN f[e].size + SumSizes(f, S \ {e})

\* the size walk: os.walk(top), adding the st_size of every file it yields
WalkSize(f, top) ==
    IF ~OnDiskDir(f, top) THEN 0
    ELSE SumSizes(f, {e \in DOMAIN f : IsPrefix(top, e) /\ f[e].kind = "file"})

\* the bytes held by all the files of the filesystem
DiskBytes(f) == SumSizes(f, {e \in DOMAIN f : f[e].kind = "file"})

FileOp(path) == [op |-> "file", path |-> path]

DirOp(path) == [op |-> "dir", path |-> path]

RECURSIVE WalkBottomUp(_, _), WalkEach(_, _)
\* os.walk(top, topdown=False) as safe_delete_venv consumes it: for each
\* directory, deepest first, its files and then its subdirectories
WalkBottomUp(f, top) ==
    IF ~OnDiskDir(f, top) THEN <<>>
    ELSE LET ds == SubDirs(f, top)
             nd == NonDirs(f, top)
         IN  WalkEach(f, ds)
             \o [k \in 1..Len(nd) |-> FileOp(nd[k])]
             \o [k \in 1..Len(ds) |-> DirOp(ds[k])]

WalkEach(f, ds) ==
    IF ds = <<>> THEN <<>>
    ELSE WalkBottomUp(f, Head(ds)) \o WalkEach(f, Tail(ds))

\* Path.stat succeeds: it follows a link
CanStat(f, path) == OnDisk(f, path) /\ ~IsLinkTo(f, path, "dangling")

\* Path.unlink succeeds
CanUnlink(f, path) == OnDisk(f, path) /\ f[path].kind # "dir" /\ ~f[path].locked

\* Path.rmdir succeeds: only on an empty directory
CanRmdir(f, path) ==
    OnDiskDir(f, path) /\ Children(f, path) = {} /\ ~f[path].locked

RECURSIVE RmTree(_, _), RmEntries(_, _)
\* shutil.rmtree(path): the filesystem it leaves and whether it returned;
\* it raises at the first entry it cannot remove
RmTree(f, path) ==
    IF ~OnDiskDir(f, path) THEN [fs |-> f, ok |-> FALSE]
    ELSE LET inner == RmEntries(f, SeqOf(Children(f, path)))
         IN  IF ~inner.ok THEN inner
             ELSE IF f[path].locked THEN [fs |-> inner.fs, ok |-> FALSE]
             ELSE [fs |-> Remove(inner.fs, {path}), ok |-> TRUE]

RmEntries(f, entries) ==
    IF entries = <<>> THEN [fs |-> f, ok |-> TRUE]
    ELSE LET e == Head(entries)
             r == IF f[e].kind = "dir" THEN RmTree(f, e)
                  ELSE IF f[e].locked THEN [fs |-> f, ok |-> FALSE]
                  ELSE [fs |-> Remove(f, {e}), ok |-> TRUE]
         IN  IF r.ok THEN RmEntries(r.fs, Tail(entries)) ELSE r

(***************************************************************************)
(* cleaner.py: what safe_delete_venv returns                               *)
(***************************************************************************)
\* ""
EmptyDetail == [kind |-> "empty"]

\* f"Directory does not exist: {venv_path}"
DoesNotExist(path) == [kind |-> "does not exist", path |-> path]

\* f"Unexpected error during deletion: {str(e)}"
UnexpectedError(e) == [kind |-> "unexpected error", exc |-> e]

\* f"Partially deleted ({len(errors)} errors)"
PartiallyDeleted(errs) == [kind |-> "partially deleted", n |-> Len(errs)]

\* errors[:3]
FirstThree(errs) == SubSeq(errs, 1, IF Len(errs) < 3 THEN Len(errs) ELSE 3)

\* a suffix already for exactly three errors
ErrorListSuffixFromThree(errs) ==
    [kind |-> "errors",
     shown |-> FirstThree(errs),
     more |-> IF Len(errs) >= 3 THEN <<Len(errs) - 3>> ELSE <<>>]

\* "\n".join(errors[:3]) + (f" (and {len(errors) - 3} more errors)" if len(errors) > 3 else "")
ErrorList(errs) ==
    [kind |-> "errors",
     shown |-> FirstThree(errs),
     more |-> IF Len(errs) > 3 THEN <<Len(errs) - 3>> ELSE <<>>]

\* the error strings safe_delete_venv records
FileError(path) == [what |-> "Error deleting file", path |-> path]

DirError(path) == [what |-> "Error deleting directory", path |-> path]

RootError == [what |-> "Error deleting root directory"]

\* lines 78-84: the result from the recorded errors and bytes_removed
FinalResult(errs, removed) ==
    IF errs # <<>>
    THEN IF removed > 0
         THEN [success |-> TRUE, error |-> PartiallyDeleted(errs)]
         ELSE [success |-> FALSE, error |-> ErrorList(errs)]
    ELSE [success |-> TRUE, error |-> EmptyDetail]

NoResult == [success |-> FALSE, error |-> [kind |-> "not returned"]]

(***************************************************************************)
(* cleaner.py: delete_multiple_venvs and the safe_delete_venv it calls     *)
(***************************************************************************)
venv_path == venv_paths[i]

total_venvs == Len(venv_paths)

\* f"{...:.0f}" of bytes_done/total*100: rounded to the nearest integer, a
\* half to the even one
Percent(bytes_done, total) ==
    LET n == 100 * bytes_done
        q == n \div total
        r == n % total
    IN  IF 2 * r > total \/ (2 * r = total /\ q % 2 = 1) THEN q + 1 ELSE q

\* venv_progress raises: bytes_done/total divides by zero, and only when
\* there is a sink is the division evaluated
VenvProgressRaises(total) == sink # "none" /\ total = 0

\* the sinks that raise the exception they are named after when told the
\* progress of a file
RaisingSinks == {"ValueError", "OSError", "KeyboardInterrupt"}

\* line 52: what progress_callback(bytes_removed, total_size) raises, "none"
\* when it returns
ProgressRaises(total) ==
    IF VenvProgressRaises(total) THEN "ZeroDivisionError"
    ELSE IF sink \in RaisingSinks THEN sink
    ELSE "none"

\* line 54: except (OSError, PermissionError)
InnerCatches(e) == e \in {"OSError", "PermissionError"}

\* line 75: except Exception catches every exception but those deriving
\* from BaseException alone
OuterCatches(e) == e \notin {"KeyboardInterrupt", "SystemExit", "GeneratorExit"}

\* the test of line 20 without its is_dir half
MissingOnly(f, path) == ~OnDisk(f, path)

\* line 20: not venv_path.exists() or not venv_path.is_dir()
Missing(f, path) == ~OnDisk(f, path) \/ ~OnDiskDir(f, path)

\* bytes_removed = size, the running total lost
AccumulateAssigns(removed, size) == size

\* line 48: bytes_removed += size
Accumulate(removed, size) == removed + size

\* shutil.rmtree's failure not recorded
RootErrorsIgnored(errs, ok) == errs

\* lines 70-73: the error of a failed rmtree is recorded
RootErrors(errs, ok) == IF ok THEN errs ELSE Append(errs, RootError)

\* a path already among the failures is not reported again
RecordFailureOnce(fl, path, error) ==
    IF \E k \in 1..Len(fl) : fl[k][1] = path THEN fl
    ELSE Append(fl, <<path, error>>)

\* line 131: failures.append((venv_path, error))
RecordFailure(fl, path, error) == Append(fl, <<path, error>>)

\* lines 102-117: the sink is told the path, the path's size is measured
BatchStep ==
    /\ pc = "loop"
    /\ i <= total_venvs
    /\ sink_log' = IF sink # "none"
                   THEN Append(sink_log, [done |-> venvs_deleted,
                                          total |-> total_venvs,
                                          path |-> venv_path, percent |-> <<>>])
                   ELSE sink_log
    /\ venv_size' = WalkSize(fs, venv_path)
    /\ pc' = "call"
    /\ UNCHANGED <<scan_vars, env_vars, req_vars, fs, freed, venv_paths, sink, i, venvs_deleted,
                   bytes_freed, failures, counted, call_vars>>

\* lines 20-38: the precondition, then total_size and the start of the walk
SafeDeleteBegin ==
    /\ pc = "call"
    /\ calls' = <<>>
    /\ unlinked' = {}
    /\ attempted' = {}
    /\ IF Missing(fs, venv_path)
       THEN /\ result' = [success |-> FALSE, error |-> DoesNotExist(venv_path)]
            /\ pc' = "returned"
            /\ UNCHANGED <<total_size, bytes_removed, errors, walk>>
       ELSE /\ total_size' = WalkSize(fs, venv_path)
            /\ bytes_removed' = 0
            /\ errors' = <<>>
            /\ walk' = WalkBottomUp(fs, venv_path)
            /\ pc' = "walk"
            /\ UNCHANGED result
    /\ UNCHANGED <<scan_vars, env_vars, req_vars, fs, freed, batch_vars>>

\* lines 43-55: one file of the walk
WalkFile ==
    /\ pc = "walk"
    /\ walk # <<>>
    /\ Head(walk).op = "file"
    /\ LET file_path == Head(walk).path
       IN  /\ attempted' = attempted \cup {file_path}
           /\ IF CanStat(fs, file_path) /\ CanUnlink(fs, file_path)
              THEN LET size == fs[file_path].size
                   IN  /\ fs' = Remove(fs, {file_path})
                       /\ freed' = freed + size
                       /\ unlinked' = unlinked \cup {file_path}
                       /\ bytes_removed' = Accumulate(bytes_removed, size)
                       /\ calls' = Append(calls, <<bytes_removed', total_size>>)
                       /\ sink_log' =
                             IF sink # "none" /\ ~VenvProgressRaises(total_size)
                             THEN Append(sink_log,
                                    [done |-> venvs_deleted,
                                     total |-> total_venvs,
                                     path |-> venv_path,
                                     percent |-> <<Percent(bytes_removed',
                                                           total_size)>>])
                             ELSE sink_log
                       /\ LET e == ProgressRaises(total_size)
                          IN  IF e = "none" \/ InnerCatches(e)
                              THEN /\ errors' = IF e = "none" THEN errors
                                                ELSE Append(errors, FileError(file_path))
                                   /\ walk' = Tail(walk)
                                   /\ UNCHANGED <<result, pc>>
                              ELSE /\ result' = IF OuterCatches(e)
                                                THEN [success |-> FALSE,
                                                      error |-> UnexpectedError(e)]
                                                ELSE result
                                   /\ pc' = IF OuterCatches(e) THEN "returned"
                                            ELSE "raised"
                                   /\ UNCHANGED <<walk, errors>>
              ELSE /\ errors' = Append(errors, FileError(file_path))
                   /\ walk' = Tail(walk)
                   /\ UNCHANGED <<fs, freed, unlinked, bytes_removed, calls,
                                  result, pc, sink_log>>
    /\ UNCHANGED <<scan_vars, env_vars, req_vars, venv_paths, sink, i, venvs_deleted, bytes_freed,
                   failures, venv_size, counted, total_size>>

\* lines 58-63: one subdirectory of the walk
WalkDir ==
    /\ pc = "walk"
    /\ walk # <<>>
    /\ Head(walk).op = "dir"
    /\ LET dir_path == Head(walk).path
       IN  /\ attempted' = attempted \cup {dir_path}
           /\ IF CanRmdir(fs, dir_path)
              THEN /\ fs' = Remove(fs, {dir_path})
                   /\ UNCHANGED errors
              ELSE /\ errors' = Append(errors, DirError(dir_path))
                   /\ UNCHANGED fs
    /\ walk' = Tail(walk)
    /\ UNCHANGED <<scan_vars, env_vars, req_vars, pc, freed, batch_vars, total_size, bytes_removed,
                   result, calls, unlinked>>

\* lines 65-73: the root directory, by rmdir and failing that by rmtree
RemoveRoot ==
    /\ pc = "walk"
    /\ walk = <<>>
    /\ IF CanRmdir(fs, venv_path)
       THEN /\ fs' = Remove(fs, {venv_path})
            /\ UNCHANGED errors
       ELSE LET r == RmTree(fs, venv_path)
            IN  /\ fs' = r.fs
                /\ errors' = RootErrors(errors, r.ok)
    /\ freed' = freed + (DiskBytes(fs) - DiskBytes(fs'))
    /\ pc' = "finish"
    /\ UNCHANGED <<scan_vars, env_vars, req_vars, batch_vars, total_size, bytes_removed, walk,
                   result, calls, unlinked, attempted>>

\* lines 78-84: the result
SafeDeleteReturn ==
    /\ pc = "finish"
    /\ result' = FinalResult(errors, bytes_removed)
    /\ pc' = "returned"
    /\ UNCHANGED <<scan_vars, env_vars, req_vars, fs, freed, batch_vars, total_size, bytes_removed,
                   errors, walk, calls, unlinked, attempted>>

\* lines 125-131: the path is counted or reported
BatchAccount ==
    /\ pc = "returned"
    /\ IF result.success
       THEN /\ venvs_deleted' = venvs_deleted + 1
            /\ bytes_freed' = bytes_freed + venv_size
            /\ counted' = Append(counted, venv_path)
            /\ UNCHANGED failures
       ELSE /\ failures' = RecordFailure(failures, venv_path, result.error)
            /\ UNCHANGED <<venvs_deleted, bytes_freed, counted>>
    /\ i' = i + 1
    /\ pc' = "loop"
    /\ UNCHANGED <<scan_vars, env_vars, req_vars, fs, freed, venv_paths, sink, venv_size, sink_log,
                   call_vars>>

\* line 133
BatchReturn ==
    /\ pc = "loop"
    /\ i > total_venvs
    /\ pc' = "done"
    /\ UNCHANGED <<scan_vars, env_vars, req_vars, fs, freed, batch_vars, call_vars>>

DeleteNext ==
    \/ BatchStep
    \/ SafeDeleteBegin
    \/ WalkFile
    \/ WalkDir
    \/ RemoveRoot
    \/ SafeDeleteReturn
    \/ BatchAccount
    \/ BatchReturn

(***************************************************************************)
(* The filesystems and batches a deletion is run on: an environment v with  *)
(* a file f and a subdirectory d holding a file g, a second environment w   *)
(* holding a file f; a batch names v, w (which may be missing) and v/f      *)
(* (not a directory).                                                      *)
(***************************************************************************)
Absent == [kind |-> "absent"]

FileChoices == {Absent} \cup {File(sz, l) : sz \in 0..MaxSize, l \in BOOLEAN}

DirChoices == {Absent} \cup {Dir(l) : l \in BOOLEAN}

\* the existing entries of a choice of slots
Present(slots) == [e \in {x \in DOMAIN slots : slots[x] # Absent} |-> slots[e]]

BatchPaths == {<<"v">>, <<"w">>, <<"v", "f">>}

SinkKinds == {"none", "ok"}

\* a symbolic link, or none
LinkChoices == {Absent, Link("dir"), Link("dangling")}

RECURSIVE Lists(_, _)
\* the lists of at most n elements of S
Lists(S, n) ==
    IF n = 0 THEN {<<>>}
    ELSE LET shorter == Lists(S, n - 1)
         IN  shorter \cup {Append(l, x) : l \in shorter, x \in S}

\* lines 97-100: the locals of delete_multiple_venvs before its loop
DeleteLocals ==
    /\ pc = "loop"
    /\ i = 1
    /\ venvs_deleted = 0
    /\ bytes_freed = 0
    /\ failures = <<>>
    /\ venv_size = 0
    /\ total_size = 0
    /\ bytes_removed = 0
    /\ errors = <<>>
    /\ walk = <<>>
    /\ result = NoResult
    /\ calls = <<>>
    /\ unlinked = {}
    /\ attempted = {}
    /\ counted = <<>>
    /\ sink_log = <<>>
    /\ freed = 0

\* the filesystems of files and directories
PlainFilesystem ==
    \E v \in {Dir(l) : l \in BOOLEAN}, f \in FileChoices, d \in DirChoices,
       g \in FileChoices, w \in {Absent, Dir(FALSE)}, wf \in {File(1, l) : l \in BOOLEAN} :
       /\ d = Absent => g = Absent
       /\ fs = Present((<<"v">> :> v) @@ (<<"v", "f">> :> f) @@ (<<"v", "d">> :> d)
                       @@ (<<"v", "d", "g">> :> g) @@ (<<"w">> :> w)
                       @@ (<<"w", "f">> :> IF w = Absent THEN Absent ELSE wf))

\* the filesystems with symbolic links: v holds a file f, a link l and a
\* subdirectory d holding a link m
LinkedFilesystem ==
    \E v \in {Dir(l) : l \in BOOLEAN}, f \in FileChoices, vl \in LinkChoices,
       d \in DirChoices, dm \in LinkChoices :
       /\ d = Absent => dm = Absent
       /\ fs = Present((<<"v">> :> v) @@ (<<"v", "f">> :> f) @@ (<<"v", "l">> :> vl)
                       @@ (<<"v", "d">> :> d) @@ (<<"v", "d", "m">> :> dm))

DeleteInit ==
    /\ PlainFilesystem
    /\ venv_paths \in Lists(BatchPaths, MaxBatch)
    /\ sink \in SinkKinds
    /\ DeleteLocals

\* a batch told to a sink that raises
SinkInit ==
    /\ PlainFilesystem
    /\ venv_paths \in Lists(BatchPaths, MaxBatch)
    /\ sink \in RaisingSinks
    /\ DeleteLocals

\* a batch on a filesystem with symbolic links
LinkInit ==
    /\ LinkedFilesystem
    /\ venv_paths \in Lists({<<"v">>}, MaxBatch)
    /\ sink \in SinkKinds
    /\ DeleteLocals

\* no deletion is under way
DeleteIdle ==
    /\ fs = <<>>
    /\ venv_paths = <<>>
    /\ sink = "none"
    /\ pc = "idle"
    /\ i = 1
    /\ venvs_deleted = 0
    /\ bytes_freed = 0
    /\ failures = <<>>
    /\ venv_size = 0
    /\ total_size = 0
    /\ bytes_removed = 0
    /\ errors = <<>>
    /\ walk = <<>>
    /\ result = NoResult
    /\ calls = <<>>
    /\ unlinked = {}
    /\ attempted = {}
    /\ counted = <<>>
    /\ sink_log = <<>>
    /\ freed = 0

\* no scan is under way
ScanIdle ==
    /\ dirs = {<<>>}
    /\ files = {}
    /\ platform = "linux"
    /\ start_path = <<>>
    /\ max_depth = 0
    /\ exclude_dirs = {}
    /\ seq_run = NotRun
    /\ par_run = NotRun
    /\ unreadable = {}
    /\ unsearchable = {}

\* is_virtual_env is not called
EnvIdle ==
    /\ env_path = <<>>
    /\ env_run = NotRun

(***************************************************************************)
(* Specifications: the scanner; the deletion engine; manifest detection.   *)
(***************************************************************************)
Init == ScanInit /\ EnvIdle /\ ReqIdle /\ DeleteIdle

Next == ScanNext

Spec == Init /\ [][Next]_vars

DeleteSpecInit == ScanIdle /\ EnvIdle /\ ReqIdle /\ DeleteInit

DeleteSpec == DeleteSpecInit /\ [][DeleteNext]_vars

\* the deletion engine told to a sink that raises
SinkSpecInit == ScanIdle /\ EnvIdle /\ ReqIdle /\ SinkInit

SinkSpec == SinkSpecInit /\ [][DeleteNext]_vars

\* the deletion engine on a filesystem with symbolic links
LinkSpecInit == ScanIdle /\ EnvIdle /\ ReqIdle /\ LinkInit

LinkSpec == LinkSpecInit /\ [][DeleteNext]_vars

ReqSpecInit == ReqInit /\ EnvIdle /\ DeleteIdle

ReqSpec == ReqSpecInit /\ [][ReqNext]_vars

\* the scanner on a snapshot with a directory it may not read or search
AccessSpecInit == AccessInit /\ EnvIdle /\ ReqIdle /\ DeleteIdle

AccessSpec == AccessSpecInit /\ [][ScanNext]_vars

\* is_virtual_env on its own
EnvSpecInit == EnvInit /\ ReqIdle /\ DeleteIdle

EnvSpec == EnvSpecInit /\ [][EnvNext]_vars

(***************************************************************************)
(* Claims about the scanner.                                               *)
(***************************************************************************)
Returned(run) == run.state = "returned"

\* the paths a call returned, as a set
Found(run) == Range(run.venvs)

StrictlyInside(path, d) == IsPrefix(d, path) /\ path # d

\* C1: for a fixed snapshot, root, max_depth and exclusion list,
\* find_venvs(parallel=True) and find_venvs(parallel=False) return the same
\* set of paths.
C1_ParallelEqualsSequential ==
    (Returned(seq_run) /\ Returned(par_run)) => Found(par_run) = Found(seq_run)

\* the directories at or below the start directory that are environments
EnvsInScope == {d \in dirs : IsPrefix(start_path, d) /\ is_virtual_env(d)}

NoRecursionIntoMatch(run) ==
    \A d \in EnvsInScope :
        /\ \A path \in Found(run) : ~StrictlyInside(path, d)
        /\ d \notin run.listed
        /\ \A t \in run.tested : ~(t # <<>> /\ Parent(t) = d)

\* C2: in either mode, for every directory D recognized as an environment
\* (D may be the start directory), no path strictly inside D is returned and
\* the children of D are neither listed nor tested.
C2_NoRecursionIntoMatch ==
    /\ Returned(seq_run) => NoRecursionIntoMatch(seq_run)
    /\ Returned(par_run) => NoRecursionIntoMatch(par_run)

NoExcludedComponent(run) ==
    \A path \in Found(run) : \A k \in 1..Len(path) : path[k] \notin exclude_set

\* C3: in either mode, no returned path has a component equal to an excluded
\* name (the platform defaults merged with the caller's names), the
\* components of the start path included.
C3_NoExcludedComponent ==
    /\ Returned(seq_run) => NoExcludedComponent(seq_run)
    /\ Returned(par_run) => NoExcludedComponent(par_run)

\* a name the scanner may descend into: not hidden, or hidden and one of
\* the three allow-listed names
NameEligible(name) ==
    name \notin {".git", ".venv", ".env", ".virtualenv", ".VENV"}
    \/ name \in {".venv", ".env", ".virtualenv"}

\* the directories between root (excluded) and D (included)
ChainBelow(root, D) == {SubSeq(D, 1, k) : k \in (Len(root) + 1)..Len(D)}

\* the environments a depth-first scan from root, depth levels deep, is to
\* return: within depth, not excluded by name, under no excluded directory
\* and no other environment, reached through eligible names only
Characterized(root, depth) ==
    {D \in dirs :
        /\ IsPrefix(root, D)
        /\ Len(D) - Len(root) <= depth
        /\ D \in dirs /\ \E m \in VENV_IDENTIFIERS : Join(D, m) \in dirs \cup files
        /\ \A A \in {root} \cup ChainBelow(root, D) :
              /\ Name(A) \notin exclude_set
              /\ A # D => ~\E m \in VENV_IDENTIFIERS : Join(A, m) \in dirs \cup files
        /\ \A A \in ChainBelow(root, D) : NameEligible(Name(A))}

\* what the parallel branch returns when no access is denied: the scan of
\* every directory directly below the start directory, one level less deep
ParallelReference ==
    UNION {Characterized(d, IF max_depth >= 1 THEN max_depth - 1 ELSE 0) :
             d \in {c \in dirs : c # <<>> /\ Parent(c) = start_path}}

\* the directories denied to the scanner
Denied == unreadable \cup unsearchable

OutsideDenied(D) == \A X \in Denied : ~IsPrefix(X, D)

\* C11: an access error raised while the scanner examines a directory X
\* (testing its markers or listing it) is swallowed at X: find_venvs returns
\* without raising in both modes, also when X is the start directory or one
\* of its children, and every environment outside X's subtree that is
\* returned without the error is still returned.
C11_AccessErrorSwallowed ==
    /\ seq_run # NotRun =>
          /\ seq_run.state = "returned"
          /\ \A D \in Characterized(start_path, max_depth) :
                OutsideDenied(D) => D \in Found(seq_run)
    /\ par_run # NotRun =>
          /\ par_run.state = "returned"
          /\ \A D \in ParallelReference :
                OutsideDenied(D) => D \in Found(par_run)

\* the parallel branch with every access granted returns ParallelReference
ParallelReferenceIsParallelResult ==
    (Returned(par_run) /\ Denied = {}) => Found(par_run) = ParallelReference

\* C12: is_virtual_env(dir) is True if and only if dir is a directory and
\* one of pyvenv.cfg, bin/activate, Scripts/activate, bin/python,
\* Scripts/python.exe exists directly beneath it; one marker alone suffices,
\* markers deeper in the subtree do not count.
C12_RecognitionRule ==
    env_run # NotRun =>
        /\ env_run.state = "returned"
        /\ env_run.value =
              (/\ env_path \in dirs
               /\ \E m \in { <<"pyvenv.cfg">>, <<"bin", "activate">>,
                              <<"Scripts", "activate">>, <<"bin", "python">>,
                              <<"Scripts", "python.exe">> } :
                     (env_path \o m) \in dirs \cup files)

\* C12's case: p is recognized by bin/activate alone, without pyvenv.cfg
C12_Witness ==
    /\ Returned(env_run)
    /\ env_run.value
    /\ env_path = <<"p">>
    /\ <<"p", "pyvenv.cfg">> \notin files
    /\ <<"p", "bin", "activate">> \in files

\* what a call tested for markers, listed or returned
DescendedInto(run) == run.tested \cup run.listed \cup Found(run)

HiddenSkipped(run) ==
    \A d \in DescendedInto(run) :
        \A A \in ChainBelow(start_path, d) : NameEligible(Name(A))

\* C13: in both modes every directory other than the start directory that
\* the scanner tests for markers, lists or returns has a name that does not
\* start with '.' or is one of .venv, .env, .virtualenv; every other hidden
\* directory, at every level below the start directory, is skipped with its
\* whole subtree.
C13_HiddenSkipped ==
    /\ Returned(seq_run) => HiddenSkipped(seq_run)
    /\ Returned(par_run) => HiddenSkipped(par_run)

Occurrences(s, x) == Cardinality({k \in 1..Len(s) : s[k] = x})

FailedPaths == [k \in 1..Len(failures) |-> failures[k][1]]

\* C4: delete_multiple_venvs on any list of N paths (missing paths,
\* non-directories, duplicates, directories with undeletable entries)
\* returns without raising, with venvs_deleted + len(failures) = N, and
\* every input path never counted in venvs_deleted is in failures as often
\* as it is in the input.
C4_BatchTotality ==
    /\ pc # "raised"
    /\ pc = "loop" => venvs_deleted + Len(failures) = i - 1
    /\ pc = "done" =>
          /\ venvs_deleted + Len(failures) = Len(venv_paths)
          /\ \A path \in Range(venv_paths) :
                path \notin Range(counted) =>
                    Occurrences(FailedPaths, path) = Occurrences(venv_paths, path)

\* C4's case: a batch naming the same path twice has returned, the path
\* deleted the first time and reported the second
C4_Witness ==
    /\ pc = "done"
    /\ Len(venv_paths) = 2
    /\ venv_paths[1] = venv_paths[2]
    /\ venvs_deleted = 1
    /\ Len(failures) = 1

\* C5 as stated: whenever safe_delete_venv(D) returns success = True, and
\* so whenever the batch counts D in venvs_deleted, D no longer exists.
C5_SuccessMeansGone ==
    (pc = "returned" /\ result.success) => ~OnDisk(fs, venv_path)

\* C5 amended: whenever safe_delete_venv(D) returns success = True with an
\* empty detail (no error was recorded), D no longer exists after the call.
C5_CleanSuccessMeansGone ==
    (pc = "returned" /\ result.success /\ result.error = EmptyDetail)
        => ~OnDisk(fs, venv_path)

\* C5's case: a call that unlinked files has returned (True, "")
C5_Witness ==
    /\ pc = "returned"
    /\ result = [success |-> TRUE, error |-> EmptyDetail]
    /\ unlinked # {}
    /\ ~OnDisk(fs, venv_path)

\* C6: bytes_freed never exceeds the bytes of the files the batch removed
\* from the filesystem.
C6_NoOvercount == bytes_freed <= freed

\* C7: if the path does not exist or is not a directory, safe_delete_venv
\* returns (False, "... does not exist ...") at once: the filesystem is left
\* as it was, nothing is attempted and no progress callback is invoked.
C7_MissingPathNoSideEffect ==
    [][(pc = "call" /\ (~OnDisk(fs, venv_path) \/ fs[venv_path].kind # "dir"))
         => /\ pc' = "returned"
            /\ result' = [success |-> FALSE, error |-> DoesNotExist(venv_path)]
            /\ fs' = fs
            /\ freed' = freed
            /\ calls' = <<>>
            /\ attempted' = {}
            /\ sink_log' = sink_log]_vars

\* C7's case: the call was given an existing file and has returned
C7_Witness ==
    /\ pc = "returned"
    /\ OnDisk(fs, venv_path)
    /\ fs[venv_path].kind = "file"
    /\ result.error.kind = "does not exist"

\* the call walked the directory to its end (no precondition failure, no
\* unexpected exception)
WalkedToEnd == pc = "returned" /\ result.error.kind \notin {"does not exist", "unexpected error"}

\* C8: for an existing directory and no unexpected exception: no errors ->
\* (True, ""); errors and bytes_removed > 0 -> (True, partial failure);
\* errors and bytes_removed = 0 -> (False, the first 3 errors, with an
\* "and N more" suffix, N = len(errors) - 3, exactly when there are more
\* than 3).  A removal failure never stops the walk: when the walk ends,
\* every entry beneath the directory has been attempted.
C8_ResultFromErrors ==
    /\ WalkedToEnd =>
          /\ errors = <<>> => result = [success |-> TRUE, error |-> EmptyDetail]
          /\ (errors # <<>> /\ bytes_removed > 0) =>
                /\ result.success
                /\ result.error.kind = "partially deleted"
                /\ result.error.n = Len(errors)
          /\ (errors # <<>> /\ bytes_removed = 0) =>
                /\ ~result.success
                /\ result.error.kind = "errors"
                /\ \A k \in 1..3 : k <= Len(errors) =>
                      /\ Len(result.error.shown) >= k
                      /\ result.error.shown[k] = errors[k]
                /\ Len(result.error.shown) <= 3
                /\ Len(result.error.shown) <= Len(errors)
                /\ Len(errors) > 3 => result.error.more = <<Len(errors) - 3>>
                /\ Len(errors) <= 3 => result.error.more = <<>>
    /\ (pc = "walk" /\ walk = <<>>) =>
          /\ unlinked \subseteq attempted
          /\ \A e \in DOMAIN fs : StrictlyInside(e, venv_path) => e \in attempted

\* C8's case: nothing was freed and more than three errors were recorded
C8_Witness ==
    /\ WalkedToEnd
    /\ bytes_removed = 0
    /\ Len(errors) > 3
    /\ ~result.success

\* C9: within one call of safe_delete_venv the bytes_done values passed to
\* the progress callback never decrease, the callback is invoked once for
\* each file the walk unlinked and never for a failed one, and bytes_total
\* is the same in every invocation.
C9_ProgressMonotone ==
    /\ \A k \in 1..Len(calls) :
          /\ calls[k][2] = total_size
          /\ k > 1 => calls[k - 1][1] <= calls[k][1]
    /\ Len(calls) = Cardinality(unlinked)
    /\ unlinked \subseteq attempted
    /\ pc \in {"walk", "finish"} =>
          bytes_removed = (IF calls = <<>> THEN 0 ELSE calls[Len(calls)][1])

\* C9's case: the walk unlinked two files and the running total grew
C9_Witness ==
    /\ pc = "finish"
    /\ Len(calls) = 2
    /\ calls[1][1] < calls[2][1]

\* the callback safe_delete_venv was given has raised in the current call
CallbackRaised == calls # <<>> /\ ProgressRaises(total_size) # "none"

\* C14: no exception raised while safe_delete_venv deletes an existing
\* directory, an exception of any class raised by the progress callback
\* included, reaches the caller: the call returns (False, "unexpected
\* error ..."), the batch appends the path to failures and goes on to the
\* remaining paths.
C14_NoExceptionEscapes ==
    /\ pc # "raised"
    /\ (pc = "returned" /\ CallbackRaised) =>
          /\ ~result.success
          /\ result.error.kind = "unexpected error"
    /\ pc = "loop" => venvs_deleted + Len(failures) = i - 1
    /\ pc = "done" => venvs_deleted + Len(failures) = Len(venv_paths)

\* C16: progress reporting is observation-only.  Without a sink no call of
\* safe_delete_venv ends in an unexpected error; with a sink that never
\* raises the batch does what it does without one, files of size 0 included,
\* so no call ends in one either, and the wrapper that formats the percent
\* text never raises.
C16_ProgressObservationOnly ==
    pc = "returned" => result.error.kind # "unexpected error"

\* C17: whenever the directory no longer exists after safe_delete_venv
\* returns, the success flag is True: success = False is returned only when
\* the directory still exists or was no directory to begin with.
C17_GoneMeansSuccess ==
    (pc = "returned" /\ ~result.success) =>
        \/ OnDiskDir(fs, venv_path)
        \/ result.error.kind = "does not exist"

(***************************************************************************)
(* Claims about manifest detection (checked under ReqSpec).                *)
(***************************************************************************)
ManifestNames ==
    {"requirements.txt", "pyproject.toml", "Pipfile", "setup.py",
     "poetry.lock", "Pipfile.lock"}

\* the place of a manifest name in the fixed list
ManifestRank(name) ==
    CASE name = "requirements.txt" -> 1
      [] name = "pyproject.toml" -> 2
      [] name = "Pipfile" -> 3
      [] name = "setup.py" -> 4
      [] name = "poetry.lock" -> 5
      [] name = "Pipfile.lock" -> 6

\* parent_dir, its parent and its grandparent, as far as they exist
NearestThree ==
    {SubSeq(parent_dir, 1, Len(parent_dir) - k) :
        k \in {j \in 0..2 : j <= Len(parent_dir)}}

\* C10: has_requirement_files(parent_dir) returns exactly the manifest files
\* that exist in parent_dir, its parent and its grandparent (fewer
\* directories when the root comes first), never one from further up, each
\* once, the nearest level first and in list order within a level; the
\* boolean is True exactly when the list is not empty.
C10_ManifestSearch ==
    Returned(req_run) =>
        LET found == req_run.req_files
        IN  /\ Range(found) = {f \in dirs \cup files :
                                 /\ f # <<>>
                                 /\ Name(f) \in ManifestNames
                                 /\ Parent(f) \in NearestThree}
            /\ \A a, b \in 1..Len(found) :
                  a < b =>
                      \/ Len(found[a]) > Len(found[b])
                      \/ /\ Len(found[a]) = Len(found[b])
                         /\ ManifestRank(Name(found[a])) < ManifestRank(Name(found[b]))
            /\ req_run.has = (found # <<>>)

\* C10's case: a manifest in the grandparent is returned, one in the
\* great-grandparent is not
C10_Witness ==
    /\ Returned(req_run)
    /\ Len(parent_dir) >= 3
    /\ \E f \in files :
          /\ Name(f) \in ManifestNames
          /\ Parent(f) = SubSeq(parent_dir, 1, Len(parent_dir) - 3)
    /\ \E k \in 1..Len(req_run.req_files) :
          Parent(req_run.req_files[k]) = SubSeq(parent_dir, 1, Len(parent_dir) - 2)

====
